---------------------------- MODULE Spec2Model ----------------------------
(***************************************************************************)
(* The reactive parameter graph of the Rubin scheduler dashboard, in its   *)
(* two variants:                                                           *)
(*   variant 1: rubin_scheduler_dashboard.py                               *)
(*   variant 2: rubin_scheduler_dashboard_GridSpecLayout.py                *)
(*                                                                         *)
(* A user action (typing a pickle name, picking a date, a tier, a map, a   *)
(* table row) assigns one parameter.  The assignment runs, depth first and *)
(* synchronously, every callback watching that parameter: first the        *)
(* param.depends(watch=True) methods in the order of their definition,     *)
(* then the panes that display the views, in the order of the layout.  A   *)
(* callback that assigns a parameter runs that parameter's watchers before *)
(* it continues.  An exception unwinds through the assignments to the      *)
(* nearest enclosing try.  One action of the model is one such cascade, so *)
(* every state of the model is a settled state.                            *)
(***************************************************************************)
EXTENDS Integers, Sequences, FiniteSets, TLC

VARIABLES
    variant,                    \* which of the two source files runs
    scheduler_fname, date, tier, survey, basis_function, survey_map,
    plot_display,
    tier_objects,               \* self.param["tier"].objects
    survey_map_objects,         \* self.param["survey_map"].objects
    _scheduler, _conditions, _date_time, _rewards, _survey_rewards,
    _listed_survey, _survey_maps, _tier_survey_rewards, _basis_functions,
    _survey_df_widget, _basis_function_df_widget,
    shown,                      \* what each pane of the layout displays
    terminal,                   \* the last line written to the terminal pane
    other,                      \* the Scheduler and panes of a second session
                                \* of pn.serve, None when there is none
    hist                        \* what the last cascade did, and with two
                                \* sessions how many user actions the server
                                \* has handled (history only)

vars == <<variant, scheduler_fname, date, tier, survey, basis_function,
          survey_map, plot_display, tier_objects, survey_map_objects,
          _scheduler, _conditions, _date_time, _rewards, _survey_rewards,
          _listed_survey, _survey_maps, _tier_survey_rewards,
          _basis_functions, _survey_df_widget, _basis_function_df_widget,
          shown, terminal, other, hist>>

---------------------------------------------------------------------------
(* Values.  Python's None and every object are records, so that any two    *)
(* values can be compared.  A str is the sequence of its characters.       *)

None == [isNone |-> TRUE]

\* the largest date the date picker offers in the model (dates are 0..MaxDate)
MaxDate == 2

Dates == 0 .. MaxDate

Digits == <<"0", "1", "2", "3", "4", "5", "6", "7", "8", "9">>

\* str(k) for the small integers the dashboard formats, as pieces of text
IntStr(k) ==
    IF k < 0 THEN <<"-", Digits[(-k) + 1]>>
    ELSE IF k < 10 THEN <<Digits[k + 1]>>
    ELSE <<Digits[(k \div 10) + 1], Digits[(k % 10) + 1]>>

\* int(c) for one character: the digit's value, or -1 where Python raises
\* ValueError
IntOfChar(c) ==
    IF \E d \in 0 .. 9 : Digits[d + 1] = c
    THEN CHOOSE d \in 0 .. 9 : Digits[d + 1] = c
    ELSE -1

\* s[-1] of a non-empty str
LastChar(str) == str[Len(str)]

\* the distinct elements of a sequence in order of first appearance
\* (pandas Series.unique().tolist())
RECURSIVE Unique(_)
Unique(q) ==
    IF q = <<>> THEN <<>>
    ELSE LET r == Unique(SubSeq(q, 1, Len(q) - 1))
             x == q[Len(q)]
         IN IF \E i \in 1 .. Len(r) : r[i] = x THEN r ELSE Append(r, x)

\* the subsequence of the elements satisfying Test (a boolean-mask selection)
RECURSIVE SelectRows(_, _)
SelectRows(q, t) ==
    IF q = <<>> THEN <<>>
    ELSE IF q[1].tier = t THEN <<q[1]>> \o SelectRows(Tail(q), t)
    ELSE SelectRows(Tail(q), t)

---------------------------------------------------------------------------
(* The external collaborators (schedview, the scheduler pickles).  They    *)
(* are not code of this repository; the model fixes a small world of       *)
(* pickles that makes every branch of the dashboard's own code happen:     *)
(* unreadable files, dates outside a pickle's range, an empty scheduler,   *)
(* tiers numbered above 9, surveys whose maps cannot be computed, maps     *)
(* with and without a 'reward' key.                                        *)

\* the file names a user types into the pickle field
FNames == {"A", "B", "E", "bad"}

\* read_scheduler(fname) raises for these
Unreadable == {"", "scheduler.pickle.xz", "bad"}

\* scheduler.survey_lists of the scheduler pickled in file f: one list of
\* surveys per tier, tier 0 first
SurveyListsOf(f) ==
    CASE f = "A" -> << <<"a0", "a1">>, <<"b0">> >>
      [] f = "B" -> [i \in 1 .. 12 |-> IF i = 2 THEN <<"c0">>
                                       ELSE IF i = 12 THEN <<"d0", "d1">>
                                       ELSE <<>>]
      [] OTHER   -> <<>>

\* update_conditions and make_reward_df succeed for conditions c at time dt
\* (None when no date was ever picked)
InRange(c, dt) ==
    CASE c.name = "A" -> dt = None \/ (dt # None /\ dt.mjd = 1)
      [] c.name = "B" -> dt # None /\ dt.mjd \in {0, 1, 2}
      [] OTHER        -> TRUE

\* make_scheduler_summary_df raises on the rewards make_reward_df gave for
\* conditions c at time dt
SummaryRaises(c, dt) == c.name = "B" /\ dt # None /\ dt.mjd = 0

\* the keys of compute_maps(survey, ...), in order; <<>> stands for the
\* call raising
MapsOf(sv) ==
    CASE sv = "a0" -> <<"sky", "reward">>
      [] sv = "a1" -> <<"reward", "sky">>
      [] sv = "c0" -> <<"depth">>
      [] sv = "d0" -> <<"sky", "reward">>
      [] OTHER     -> <<>>

\* the basis_function column of make_survey_reward_df(survey, ...); <<>>
\* stands for the call raising
BasisFunctionsOf(sv) ==
    CASE sv = "a0" -> <<"f0", "f1">>
      [] sv = "a1" -> <<"f0">>
      [] sv = "b0" -> <<"g0">>
      [] sv = "c0" -> <<"h0", "h1">>
      [] OTHER     -> <<>>

\* the rows make_scheduler_summary_df gives for scheduler sch at time dt:
\* one row per survey, tier by tier
RECURSIVE SummaryRows(_, _, _)
SummaryRows(lists, n, dt) ==
    IF n > Len(lists) THEN <<>>
    ELSE [i \in 1 .. Len(lists[n]) |->
             [tier |-> <<"tier ">> \o IntStr(n - 1),
              survey_name |-> lists[n][i],
              reward |-> dt]]
         \o SummaryRows(lists, n + 1, dt)

---------------------------------------------------------------------------
(* Exceptions and callbacks.  The operators below take the state of one    *)
(* Scheduler object as a record s (the variables of the module, plus exc:  *)
(* an exception is unwinding) and give the state after the call.  A       *)
(* statement that follows another is written over the state the other      *)
(* leaves: in  CHOOSE r \in {B(s1) : s1 \in {A(s)}} : TRUE  the state s1    *)
(* is the one A leaves and r the one B leaves after it.                    *)

\* a raise statement, or an expression that raises
Raise(s) == [s EXCEPT !.exc = TRUE]

\* entering an except block
Caught(s) == [s EXCEPT !.exc = FALSE]

\* around the call of a watching method (see Watch): hist records that the
\* method ran, and whether an exception left it
Enter(name, s) == [s EXCEPT !.ran = @ \cup {name}]

Leave(name, r) ==
    CHOOSE x \in
        {IF y.exc THEN [y EXCEPT !.escaped = @ \cup {name}] ELSE y : y \in {r}} : TRUE

\* Comparator.is_equal of param on the values the dashboard assigns: numbers,
\* strings and None compare by value, any other object counts as changed
IsEqual(old, new, byValue) == IF byValue THEN old = new ELSE old = None /\ new = None

\* terminal.write and self._debugging_message of variant 2: one more line
\* on the module-level terminal (nothing watches _debugging_message in the
\* layout)
DebugMessage(s, msg) ==
    IF s.variant = 2 THEN [s EXCEPT !.terminal = msg] ELSE s

---------------------------------------------------------------------------
(* The title views.                                                        *)

\* DataFrame.reset_index()['survey_name'][k] raises KeyError off the rows;
\* None has no reset_index
SurveyNameRaises(s) ==
    \/ s._tier_survey_rewards = None
    \/ s.survey + 1 > Len(s._tier_survey_rewards.rows)

SurveyName(s) == s._tier_survey_rewards.rows[s.survey + 1].survey_name

\* dashboard_title with the basis function segment not tied to plot_display
dashboard_title_both(s) ==
    LET inTier   == s._scheduler # None /\ s.tier # <<>>
        inSurvey == inTier /\ s.survey >= 0
        titleT  == IF inTier THEN <<"\nTier ", LastChar(s.tier)>> ELSE <<>>
        titleS  == IF inSurvey THEN <<" | Survey ">> \o IntStr(s.survey) ELSE <<>>
        titleM  == IF inSurvey /\ s.plot_display = 1
                   THEN <<" | Map ", s.survey_map>> ELSE <<>>
        titleBF == IF inSurvey /\ s.basis_function >= 0
                   THEN <<" | Basis function ">> \o IntStr(s.basis_function)
                   ELSE <<>>
    IN  <<"Scheduler Dashboard">> \o titleT \o titleS \o titleBF \o titleM

dashboard_title(s) ==
    LET inTier   == s._scheduler # None /\ s.tier # <<>>
        inSurvey == inTier /\ s.survey >= 0
        titleT  == IF inTier THEN <<"\nTier ", LastChar(s.tier)>> ELSE <<>>
        titleS  == IF inSurvey THEN <<" | Survey ">> \o IntStr(s.survey) ELSE <<>>
        titleM  == IF inSurvey /\ s.plot_display = 1
                   THEN <<" | Map ", s.survey_map>> ELSE <<>>
        titleBF == IF inSurvey /\ s.plot_display = 2
                      /\ s.basis_function >= 0
                   THEN <<" | Basis function ">> \o IntStr(s.basis_function)
                   ELSE <<>>
    IN  <<"Scheduler Dashboard">> \o titleT \o titleS \o titleBF \o titleM

survey_rewards_title(s) ==
    IF s._scheduler # None /\ s.tier # <<>>
    THEN <<"Tier ", LastChar(s.tier), " survey rewards">>
    ELSE <<>>

basis_function_table_title_raises(s) ==
    s._scheduler # None /\ s.survey >= 0 /\ SurveyNameRaises(s)

basis_function_table_title(s) ==
    IF s._scheduler # None /\ s.survey >= 0
    THEN <<"Basis functions for survey ", SurveyName(s)>>
    ELSE <<>>

\* self._basis_functions['basis_function'][k]
BasisFunctionNameRaises(s) ==
    \/ s._basis_functions = None
    \/ s.basis_function + 1 > Len(s._basis_functions.rows)

map_title_raises(s) ==
    /\ s._scheduler # None /\ s.survey >= 0
    /\ \/ SurveyNameRaises(s)
       \/ s.plot_display = 2 /\ s.basis_function >= 0
          /\ BasisFunctionNameRaises(s)

map_title(s) ==
    IF s._scheduler # None /\ s.survey >= 0
    THEN IF s.plot_display = 1
         THEN <<"Survey ", SurveyName(s), "\n", "Map ", s.survey_map>>
         ELSE IF s.plot_display = 2 /\ s.basis_function >= 0
         THEN <<"Survey ", SurveyName(s), "\n", "Basis function ">>
              \o IntStr(s.basis_function)
              \o <<": ", s._basis_functions.rows[s.basis_function + 1].basis_function>>
         ELSE <<>>
    ELSE <<>>

\* The panes of the layout: a pane re-evaluates its view when a parameter
\* the view depends on changes, and displays what the view returns.  There
\* is no pane before scheduler_app has built the layout (s.laid_out).
PaneDashboardTitle(s) ==
    IF ~s.laid_out THEN s
    ELSE [s EXCEPT !.shown.dashboard_title = dashboard_title(s)]

PaneSurveyRewardsTitle(s) ==
    IF ~s.laid_out THEN s
    ELSE [s EXCEPT !.shown.survey_rewards_title = survey_rewards_title(s)]

PaneBasisFunctionTableTitle(s) ==
    IF ~s.laid_out THEN s
    ELSE IF basis_function_table_title_raises(s) THEN Raise(s)
    ELSE [s EXCEPT !.shown.basis_function_table_title = basis_function_table_title(s)]

PaneMapTitle(s) ==
    IF ~s.laid_out THEN s
    ELSE IF map_title_raises(s) THEN Raise(s)
    ELSE [s EXCEPT !.shown.map_title = map_title(s)]

\* param runs a watcher by calling it from the assignment it watches, and
\* the watcher may assign in turn: Watch(name, s) is the call of the
\* watching method name on state s, defined once every method is
RECURSIVE Watch(_, _)

---------------------------------------------------------------------------
(* plot_display, basis_function and the basis function table.              *)

\* the panes that declare plot_display: none in variant 1
PlotDisplayWatchers(s) ==
    IF s.variant = 1 THEN s
    ELSE CHOOSE s2 \in
             {IF s1.exc THEN s1 ELSE PaneMapTitle(s1) : s1 \in
             {PaneDashboardTitle(s)}} : TRUE

\* self.plot_display = v
SetPlotDisplay(s, v) ==
    CHOOSE r \in
        {IF s.plot_display = v THEN s1 ELSE PlotDisplayWatchers(s1) : s1 \in
        {[s EXCEPT !.plot_display = v]}} : TRUE

\* the panes that declare basis_function
BasisFunctionWatchers(s) ==
    CHOOSE s2 \in
        {IF s1.exc THEN s1 ELSE PaneMapTitle(s1) : s1 \in
        {PaneDashboardTitle(s)}} : TRUE

\* self.basis_function = v
SetBasisFunction(s, v) ==
    CHOOSE r \in
        {IF s.basis_function = v THEN s1 ELSE BasisFunctionWatchers(s1) : s1 \in
        {[s EXCEPT !.basis_function = v]}} : TRUE

\* the except block of update_basis_function_with_row_selection
BasisFunctionSelectionFailed(s) ==
    SetBasisFunction(
        DebugMessage(Caught(s), "Basis function dataframe selection unable to be updated"),
        -1)

\* the try block of update_basis_function_with_row_selection
BasisFunctionSelectionTry(s) ==
    CHOOSE r \in
        {IF s1.exc THEN s1
         ELSE IF s1._basis_function_df_widget.selection = <<>> THEN Raise(s1)
         ELSE SetBasisFunction(s1, s1._basis_function_df_widget.selection[1]) : s1 \in
        {SetPlotDisplay(s, 2)}} : TRUE

update_basis_function_with_row_selection(s) ==
    IF s.variant = 2 /\ s._basis_function_df_widget.selection = <<>> THEN s
    ELSE CHOOSE x \in
             {IF r.exc THEN BasisFunctionSelectionFailed(r) ELSE r : r \in
             {BasisFunctionSelectionTry(s)}} : TRUE

\* param's _skip_event: when the object holding a watched sub-parameter is
\* replaced, the watcher is skipped if the sub-parameter has the same value
\* on the old and on the new object; an old None counts as another value
SkipEvent(old, new) == old # None /\ new # None /\ old.selection = new.selection

\* self._basis_function_df_widget = w: the method depending on
\* "_basis_function_df_widget.selection" runs when the widget is replaced
\* by one with another selection
SetBasisFunctionDfWidget(s, w) ==
    CHOOSE r \in
        {IF SkipEvent(s._basis_function_df_widget, w) THEN s1
         ELSE Watch("update_basis_function_with_row_selection", s1) : s1 \in
        {[s EXCEPT !._basis_function_df_widget = w]}} : TRUE

\* a pane whose view raised keeps what it displayed; a widget it displayed
\* is then no longer the one the Scheduler holds
KeepShown(view) == IF view = [widget |-> "current"] THEN [widget |-> "stale"] ELSE view

\* basis_function_table returning a widget it does not record
basis_function_table_unrecorded(s) ==
    IF ~s.laid_out THEN s
    ELSE IF s._basis_functions = None
    THEN [s EXCEPT !.shown.basis_function_table = [text |-> "No basis functions available."]]
    ELSE [s EXCEPT !.shown.basis_function_table = [widget |-> "current"]]

\* the view basis_function_table, and the pane displaying what it returns
basis_function_table(s) ==
    IF ~s.laid_out THEN s
    ELSE IF s._basis_functions = None
    THEN [s EXCEPT !.shown.basis_function_table = [text |-> "No basis functions available."]]
    ELSE CHOOSE x \in
             {IF r.exc
              THEN [r EXCEPT !.shown.basis_function_table = KeepShown(@)]
              ELSE [r EXCEPT !.shown.basis_function_table = [widget |-> "current"]] : r \in
             {SetBasisFunctionDfWidget(
                  s, [selection |-> <<>>, data |-> s._basis_functions])}} : TRUE

\* self._basis_functions = v
SetBasisFunctions(s, v) ==
    CHOOSE r \in
        {IF IsEqual(s._basis_functions, v, FALSE) THEN s1
         ELSE basis_function_table(s1) : s1 \in
        {[s EXCEPT !._basis_functions = v]}} : TRUE

\* the index of self._rewards: (tier number, survey number) of every survey
RewardKeys(rw) ==
    LET lists == SurveyListsOf(rw.sched)
    IN  UNION {{<<t - 1, i - 1>> : i \in 1 .. Len(lists[t])} : t \in 1 .. Len(lists)}

\* the except block of _update_basis_functions
BasisFunctionsFailed(s) ==
    SetBasisFunctions(
        DebugMessage(Caught(s), "Basis function dataframe unable to be updated"),
        None)

\* the try block of _update_basis_functions
BasisFunctionsTry(s) ==
    IF s.tier = <<>> \/ IntOfChar(LastChar(s.tier)) < 0 \/ s._rewards = None
    THEN Raise(s)
    ELSE LET tier_id   == IntOfChar(LastChar(s.tier))
             survey_id == s.survey
             names     == BasisFunctionsOf(s._listed_survey.name)
         IN  IF <<tier_id, survey_id>> \notin RewardKeys(s._rewards) \/ names = <<>>
             THEN Raise(s)
             ELSE SetBasisFunctions(
                      s, [rows |-> [i \in 1 .. Len(names) |-> [basis_function |-> names[i]]]])

_update_basis_functions(s) ==
    IF s._listed_survey = None THEN s
    ELSE CHOOSE x \in
             {IF r.exc THEN BasisFunctionsFailed(r) ELSE r : r \in
             {BasisFunctionsTry(s)}} : TRUE

---------------------------------------------------------------------------
(* survey_map, the map selector, _listed_survey and survey.               *)

_update_plot_display(s) ==
    IF s.variant = 1 THEN SetPlotDisplay(s, 1)
    ELSE IF s.survey_map # "" THEN SetPlotDisplay(s, 1)
    ELSE s

\* the watchers of survey_map: _update_plot_display, then the panes
SurveyMapWatchers(s) ==
    CHOOSE s3 \in
        {IF s2.exc THEN s2 ELSE PaneMapTitle(s2) : s2 \in
        {IF s1.exc THEN s1 ELSE PaneDashboardTitle(s1) : s1 \in
        {Watch("_update_plot_display", s)}}} : TRUE

\* self.survey_map = v: an ObjectSelector refuses a value that is not among
\* its objects
SetSurveyMap(s, v) ==
    IF \A i \in 1 .. Len(s.survey_map_objects) : s.survey_map_objects[i] # v
    THEN Raise(s)
    ELSE CHOOSE r \in
             {IF s.survey_map = v THEN s1 ELSE SurveyMapWatchers(s1) : s1 \in
             {[s EXCEPT !.survey_map = v]}} : TRUE

\* the rest of _update_map_selector once compute_maps has returned
MapSelectorChoose(s, maps) ==
    CHOOSE r \in
        {IF s.variant = 1 \/ s2.exc THEN s2 ELSE SetPlotDisplay(s2, 1) : s2 \in
        {IF \E i \in 1 .. Len(maps) : maps[i] = "reward"
         THEN SetSurveyMap(s1, maps[Len(maps)])
         ELSE SetSurveyMap(s1, maps[1]) : s1 \in
        {[s EXCEPT !._survey_maps = [keys |-> maps], !.survey_map_objects = maps]}}} : TRUE

_update_map_selector(s) ==
    IF s.tier = <<>> \/ s.survey < 0
    THEN SetSurveyMap([s EXCEPT !.survey_map_objects = <<"">>], "")
    ELSE IF s._listed_survey = None \/ MapsOf(s._listed_survey.name) = <<>>
    THEN Raise(s)
    ELSE MapSelectorChoose(s, MapsOf(s._listed_survey.name))

\* the watchers of _listed_survey, in the order of their definition
ListedSurveyWatchers(s) ==
    CHOOSE s2 \in
        {IF s1.exc THEN s1
         ELSE Watch("_update_basis_functions", s1) : s1 \in
        {Watch("_update_map_selector", s)}} : TRUE

\* self._listed_survey = v
SetListedSurvey(s, v) ==
    CHOOSE r \in
        {IF IsEqual(s._listed_survey, v, FALSE) THEN s1
         ELSE ListedSurveyWatchers(s1) : s1 \in
        {[s EXCEPT !._listed_survey = v]}} : TRUE

\* lst[k] of Python for a list lst: k counts from the end when negative;
\* <<>> stands for IndexError
PyIndex(lst, k) ==
    IF k >= 0 /\ k < Len(lst) THEN <<lst[k + 1]>>
    ELSE IF k < 0 /\ -k <= Len(lst) THEN <<lst[Len(lst) + k + 1]>>
    ELSE <<>>

\* the except block of _update_listed_survey
ListedSurveyFailed(s) ==
    SetListedSurvey(
        DebugMessage(Caught(s), "Listed survey unable to be updated"), None)

\* the try block of _update_listed_survey
ListedSurveyTry(s) ==
    IF s.tier = <<>> \/ IntOfChar(LastChar(s.tier)) < 0 \/ s._scheduler = None
    THEN Raise(s)
    ELSE LET tier_id == IntOfChar(LastChar(s.tier))
             lists   == PyIndex(SurveyListsOf(s._scheduler.name), tier_id)
             found   == IF lists = <<>> THEN <<>> ELSE PyIndex(lists[1], s.survey)
         IN  IF found = <<>> THEN Raise(s)
             ELSE SetListedSurvey(s, [name |-> found[1]])

_update_listed_survey(s) ==
    CHOOSE x \in
        {IF r.exc THEN ListedSurveyFailed(r) ELSE r : r \in
        {ListedSurveyTry(s)}} : TRUE

\* the watchers of survey: _update_listed_survey, then the panes
SurveyWatchers(s) ==
    CHOOSE s4 \in
        {IF s3.exc THEN s3 ELSE PaneMapTitle(s3) : s3 \in
        {IF s2.exc THEN s2 ELSE PaneBasisFunctionTableTitle(s2) : s2 \in
        {IF s1.exc THEN s1 ELSE PaneDashboardTitle(s1) : s1 \in
        {Watch("_update_listed_survey", s)}}}} : TRUE

\* self.survey = v
SetSurvey(s, v) ==
    CHOOSE r \in
        {IF s.survey = v THEN s1 ELSE SurveyWatchers(s1) : s1 \in
        {[s EXCEPT !.survey = v]}} : TRUE

\* the except block of update_survey_with_row_selection
SurveySelectionFailed(s) ==
    SetSurvey(DebugMessage(Caught(s), "Survey selection unable to be updated"), -1)

update_survey_with_row_selection(s) ==
    IF s._survey_df_widget.selection = <<>>
    THEN IF s.variant = 2 THEN SetSurvey(s, -1)
         ELSE SurveySelectionFailed(Raise(s))
    ELSE CHOOSE x \in
             {IF r.exc THEN SurveySelectionFailed(r) ELSE r : r \in
             {SetSurvey(s, s._survey_df_widget.selection[1])}} : TRUE

\* self._survey_df_widget = w
SetSurveyDfWidget(s, w) ==
    CHOOSE r \in
        {IF SkipEvent(s._survey_df_widget, w) THEN s1
         ELSE Watch("update_survey_with_row_selection", s1) : s1 \in
        {[s EXCEPT !._survey_df_widget = w]}} : TRUE

\* the view survey_reward_table (survey_rewards_table in variant 2), and the
\* pane displaying what it returns
survey_rewards_table(s) ==
    IF ~s.laid_out THEN s
    ELSE IF s._tier_survey_rewards = None
    THEN [s EXCEPT !.shown.survey_rewards_table = [text |-> "No surveys available."]]
    ELSE CHOOSE x \in
             {IF r.exc
              THEN [r EXCEPT !.shown.survey_rewards_table = KeepShown(@)]
              ELSE [r EXCEPT !.shown.survey_rewards_table = [widget |-> "current"]] : r \in
             {SetSurveyDfWidget(
                  s, [selection |-> <<>>, data |-> s._tier_survey_rewards])}} : TRUE

---------------------------------------------------------------------------
(* _tier_survey_rewards, tier, _survey_rewards.                            *)

\* the watchers of _tier_survey_rewards: _update_basis_functions declares
\* the view survey_reward_table, that is, the parameter the view depends
\* on; then the pane of the view
TierSurveyRewardsWatchers(s) ==
    CHOOSE s2 \in
        {IF s1.exc THEN s1 ELSE survey_rewards_table(s1) : s1 \in
        {Watch("_update_basis_functions", s)}} : TRUE

\* self._tier_survey_rewards = v
SetTierSurveyRewards(s, v) ==
    CHOOSE r \in
        {IF IsEqual(s._tier_survey_rewards, v, FALSE) THEN s1
         ELSE TierSurveyRewardsWatchers(s1) : s1 \in
        {[s EXCEPT !._tier_survey_rewards = v]}} : TRUE

\* TierRows without the mask: every row, whatever its tier
TierRows_unfiltered(s) == [rows |-> s._survey_rewards.rows]

\* self._survey_rewards[self._survey_rewards['tier']==self.tier]
TierRows(s) == [rows |-> SelectRows(s._survey_rewards.rows, s.tier)]

\* the except block of _update_survey_reward_table
SurveyRewardTableFailed(s) ==
    SetTierSurveyRewards(
        DebugMessage(Caught(s), "Survey rewards unable to be updated"), None)

_update_survey_reward_table(s) ==
    IF s._survey_rewards = None THEN SetTierSurveyRewards(s, None)
    ELSE CHOOSE x \in
             {IF r.exc THEN SurveyRewardTableFailed(r) ELSE r : r \in
             {SetTierSurveyRewards(s, TierRows(s))}} : TRUE

\* the watchers of tier: _update_survey_reward_table, then the panes
TierWatchers(s) ==
    CHOOSE s3 \in
        {IF s2.exc THEN s2 ELSE PaneSurveyRewardsTitle(s2) : s2 \in
        {IF s1.exc THEN s1 ELSE PaneDashboardTitle(s1) : s1 \in
        {Watch("_update_survey_reward_table", s)}}} : TRUE

\* self.tier = v: an ObjectSelector refuses a value that is not among its
\* objects
SetTier(s, v) ==
    IF \A i \in 1 .. Len(s.tier_objects) : s.tier_objects[i] # v
    THEN Raise(s)
    ELSE CHOOSE r \in
             {IF s.tier = v THEN s1 ELSE TierWatchers(s1) : s1 \in
             {[s EXCEPT !.tier = v]}} : TRUE

\* self._survey_rewards.tier.unique().tolist()
TiersOf(df) == Unique([i \in 1 .. Len(df.rows) |-> df.rows[i].tier])

\* _update_tier_selector choosing the last tier instead of the first
_update_tier_selector_last(s) ==
    IF s._survey_rewards = None
    THEN SetTier([s EXCEPT !.tier_objects = << <<>> >>], <<>>)
    ELSE CHOOSE r \in
             {IF s1.tier_objects = <<>> THEN Raise(s1)
              ELSE SetTier(s1, s1.tier_objects[Len(s1.tier_objects)]) : s1 \in
             {[s EXCEPT !.tier_objects = TiersOf(s._survey_rewards)]}} : TRUE

_update_tier_selector(s) ==
    IF s._survey_rewards = None
    THEN SetTier([s EXCEPT !.tier_objects = << <<>> >>], <<>>)
    ELSE CHOOSE r \in
             {IF s1.tier_objects = <<>> THEN Raise(s1)
              ELSE SetTier(s1, s1.tier_objects[1]) : s1 \in
             {[s EXCEPT !.tier_objects = TiersOf(s._survey_rewards)]}} : TRUE

\* the watchers of _survey_rewards, in the order of their definition
SurveyRewardsWatchers(s) ==
    CHOOSE s2 \in
        {IF s1.exc THEN s1
         ELSE Watch("_update_survey_reward_table", s1) : s1 \in
        {Watch("_update_tier_selector", s)}} : TRUE

\* self._survey_rewards = v
SetSurveyRewards(s, v) ==
    CHOOSE r \in
        {IF IsEqual(s._survey_rewards, s1._survey_rewards, FALSE) THEN s1
         ELSE SurveyRewardsWatchers(s1) : s1 \in
        {[s EXCEPT !._survey_rewards = v]}} : TRUE

\* the except block of _update_survey_rewards without its reset
SurveyRewardsFailed_noreset(s) ==
    DebugMessage(Caught(s), "Survey rewards table unable to be updated")

\* the except block of _update_survey_rewards
SurveyRewardsFailed(s) ==
    SetSurveyRewards(
        DebugMessage(Caught(s), "Survey rewards table unable to be updated"), None)

\* the try block of _update_survey_rewards: self._conditions.mjd = ... has
\* no conditions to assign to, or update_conditions / make_reward_df raise,
\* or make_scheduler_summary_df raises once _rewards is assigned, or the
\* table is assigned.  rewards_raised records that a computation of the
\* rewards raised in this cascade, rewards_last that the last one did
SurveyRewardsTry(s) ==
    IF s._conditions = None \/ ~InRange(s._conditions, s._date_time)
    THEN Raise([s EXCEPT !.rewards_raised = TRUE, !.rewards_last = TRUE])
    ELSE IF SummaryRaises(s._conditions, s._date_time)
    THEN Raise([s EXCEPT !.rewards_raised = TRUE, !.rewards_last = TRUE,
                         !._rewards = [sched |-> s._scheduler.name, dt |-> s._date_time]])
    ELSE SetSurveyRewards(
             [s EXCEPT !.rewards_last = FALSE,
                       !._rewards = [sched |-> s._scheduler.name, dt |-> s._date_time]],
             [rows |-> SummaryRows(SurveyListsOf(s._scheduler.name), 1, s._date_time)])

_update_survey_rewards(s) ==
    IF s._scheduler = None THEN s
    ELSE CHOOSE x \in
             {IF r.exc THEN SurveyRewardsFailed(r) ELSE r : r \in
             {SurveyRewardsTry(s)}} : TRUE

---------------------------------------------------------------------------
(* scheduler_fname and date.                                               *)

\* self._scheduler = v, self._conditions = v: objects, so always a change
SetScheduler(s, v) ==
    CHOOSE r \in
        {Watch("_update_survey_rewards", s1) : s1 \in
        {[s EXCEPT !._scheduler = v]}} : TRUE

SetConditions(s, v) ==
    CHOOSE r \in
        {Watch("_update_survey_rewards", s1) : s1 \in
        {[s EXCEPT !._conditions = v]}} : TRUE

\* self._date_time = v: a number
SetDateTime(s, v) ==
    CHOOSE r \in
        {IF IsEqual(s._date_time, v, TRUE) THEN s1
         ELSE Watch("_update_survey_rewards", s1) : s1 \in
        {[s EXCEPT !._date_time = v]}} : TRUE

\* the except block of _update_scheduler dropping the scheduler it could not
\* replace
SchedulerFailed_reset(s) ==
    SetScheduler(DebugMessage(Caught(s), "Could not load scheduler"), None)

\* the except block of _update_scheduler
SchedulerFailed(s) == DebugMessage(Caught(s), "Could not load scheduler")

\* the try block of _update_scheduler once read_scheduler has returned
SchedulerTry(s) ==
    CHOOSE r \in
        {IF s1.exc THEN s1
         ELSE SetConditions(s1, [name |-> s.scheduler_fname]) : s1 \in
        {SetScheduler(s, [name |-> s.scheduler_fname])}} : TRUE

_update_scheduler(s) ==
    IF s.scheduler_fname \in Unreadable THEN SchedulerFailed(Raise(s))
    ELSE CHOOSE x \in
             {IF r.exc THEN SchedulerFailed(r) ELSE r : r \in
             {SchedulerTry(s)}} : TRUE

\* Time(pd.Timestamp(self.date, ...)).mjd
_update_date_time(s) == SetDateTime(s, [mjd |-> s.date])

\* self.scheduler_fname = v
SetSchedulerFname(s, v) ==
    CHOOSE r \in
        {IF s.scheduler_fname = v THEN s1
         ELSE Watch("_update_scheduler", s1) : s1 \in
        {[s EXCEPT !.scheduler_fname = v]}} : TRUE

\* self.date = v
SetDate(s, v) ==
    CHOOSE r \in
        {IF s.date = v THEN s1
         ELSE Watch("_update_date_time", s1) : s1 \in
        {[s EXCEPT !.date = v]}} : TRUE

\* sky_map, a view no pane of the layout displays; raises stands for
\* map_survey_healpix raising
sky_map(s, raises) ==
    IF s._conditions = None \/ s._survey_maps = None THEN s
    ELSE IF raises THEN DebugMessage(Caught(Raise(s)), "Could not load map")
    ELSE s

\* the call of the watching method name
Watch(name, s) ==
    Leave(name,
          CASE name = "_update_scheduler" -> _update_scheduler(Enter(name, s))
            [] name = "_update_date_time" -> _update_date_time(Enter(name, s))
            [] name = "_update_survey_rewards" -> _update_survey_rewards(Enter(name, s))
            [] name = "_update_tier_selector" -> _update_tier_selector(Enter(name, s))
            [] name = "_update_survey_reward_table" ->
                   _update_survey_reward_table(Enter(name, s))
            [] name = "update_survey_with_row_selection" ->
                   update_survey_with_row_selection(Enter(name, s))
            [] name = "_update_listed_survey" -> _update_listed_survey(Enter(name, s))
            [] name = "_update_map_selector" -> _update_map_selector(Enter(name, s))
            [] name = "_update_plot_display" -> _update_plot_display(Enter(name, s))
            [] name = "_update_basis_functions" -> _update_basis_functions(Enter(name, s))
            [] name = "update_basis_function_with_row_selection" ->
                   update_basis_function_with_row_selection(Enter(name, s)))

---------------------------------------------------------------------------
(* The state machine.                                                      *)

\* the Scheduler object at the start of a user action (nothing has run yet)
Now ==
    [variant |-> variant, scheduler_fname |-> scheduler_fname, date |-> date,
     tier |-> tier, survey |-> survey, basis_function |-> basis_function,
     survey_map |-> survey_map, plot_display |-> plot_display,
     tier_objects |-> tier_objects, survey_map_objects |-> survey_map_objects,
     _scheduler |-> _scheduler, _conditions |-> _conditions,
     _date_time |-> _date_time, _rewards |-> _rewards,
     _survey_rewards |-> _survey_rewards, _listed_survey |-> _listed_survey,
     _survey_maps |-> _survey_maps, _tier_survey_rewards |-> _tier_survey_rewards,
     _basis_functions |-> _basis_functions,
     _survey_df_widget |-> _survey_df_widget,
     _basis_function_df_widget |-> _basis_function_df_widget,
     shown |-> shown, terminal |-> terminal, laid_out |-> TRUE,
     exc |-> FALSE, ran |-> {}, escaped |-> {}, rewards_raised |-> FALSE,
     rewards_last |-> FALSE]

\* the cascade has settled in state r: an exception that reached the event
\* loop is logged there and dropped
Settle(op, r) ==
    /\ variant' = r.variant
    /\ scheduler_fname' = r.scheduler_fname
    /\ date' = r.date
    /\ tier' = r.tier
    /\ survey' = r.survey
    /\ basis_function' = r.basis_function
    /\ survey_map' = r.survey_map
    /\ plot_display' = r.plot_display
    /\ tier_objects' = r.tier_objects
    /\ survey_map_objects' = r.survey_map_objects
    /\ _scheduler' = r._scheduler
    /\ _conditions' = r._conditions
    /\ _date_time' = r._date_time
    /\ _rewards' = r._rewards
    /\ _survey_rewards' = r._survey_rewards
    /\ _listed_survey' = r._listed_survey
    /\ _survey_maps' = r._survey_maps
    /\ _tier_survey_rewards' = r._tier_survey_rewards
    /\ _basis_functions' = r._basis_functions
    /\ _survey_df_widget' = r._survey_df_widget
    /\ _basis_function_df_widget' = r._basis_function_df_widget
    /\ shown' = r.shown
    /\ terminal' = r.terminal
    /\ other' = other
    /\ hist' = [op |-> op, ran |-> r.ran, escaped |-> r.escaped,
                uncaught |-> r.exc, rewards_raised |-> r.rewards_raised,
                rewards_last |-> r.rewards_last,
                n |-> IF other = None THEN 0 ELSE hist.n + 1]

\* the default of scheduler_fname in the parameter declarations
DefaultFname(v) == IF v = 1 THEN "scheduler.pickle.xz" ELSE ""

\* Scheduler(): the defaults of the parameter declarations; no pane exists
\* yet, so nothing is displayed
NewScheduler(v) ==
    [variant |-> v,
     scheduler_fname |-> DefaultFname(v),
     date |-> 0, tier |-> <<>>, survey |-> -1, basis_function |-> -1,
     survey_map |-> "", plot_display |-> 1,
     tier_objects |-> << <<>> >>, survey_map_objects |-> <<"">>,
     _scheduler |-> None, _conditions |-> None, _date_time |-> None,
     _rewards |-> None, _survey_rewards |-> None, _listed_survey |-> None,
     _survey_maps |-> None, _tier_survey_rewards |-> None,
     _basis_functions |-> None, _survey_df_widget |-> None,
     _basis_function_df_widget |-> None,
     shown |-> [dashboard_title |-> <<>>,
                survey_rewards_title |-> <<>>,
                basis_function_table_title |-> <<>>,
                map_title |-> <<>>,
                survey_rewards_table |-> [text |-> ""],
                basis_function_table |-> [text |-> ""]],
     terminal |-> "", laid_out |-> FALSE,
     exc |-> FALSE, ran |-> {}, escaped |-> {}, rewards_raised |-> FALSE,
     rewards_last |-> FALSE]

\* the layout of scheduler_app: the panes are built in the order of the
\* layout, and each evaluates its view once
Layout(s) ==
    CHOOSE s6 \in
        {IF s5.exc THEN s5 ELSE PaneMapTitle(s5) : s5 \in
        {IF s4.exc THEN s4 ELSE basis_function_table(s4) : s4 \in
        {IF s3.exc THEN s3 ELSE PaneBasisFunctionTableTitle(s3) : s3 \in
        {IF s2.exc THEN s2 ELSE survey_rewards_table(s2) : s2 \in
        {PaneSurveyRewardsTitle(s1) : s1 \in
        {PaneDashboardTitle([s EXCEPT !.laid_out = TRUE])}}}}}} : TRUE

\* scheduler_app(date, scheduler_pickle) while the terminal shows term: an
\* argument left None is the default of the parameter, whose assignment
\* changes nothing; exc in the result stands for scheduler_app raising
scheduler_app(v, d, f, term) ==
    CHOOSE s3 \in
        {IF s2.exc THEN s2 ELSE Layout(s2) : s2 \in
        {IF s1.exc THEN s1 ELSE SetSchedulerFname(s1, f) : s1 \in
        {SetDate([NewScheduler(v) EXCEPT !.terminal = term], d)}}} : TRUE

\* what scheduler_app() builds for one more session of pn.serve: a
\* Scheduler() of its own and a layout of its own, whose debugging pane
\* holds the one module-level terminal (kept in the variable terminal, not
\* in the record)
NewSession(v) == scheduler_app(v, 0, DefaultFname(v), "")

\* the Scheduler object of the second session at the start of a user
\* action: its own parameters, and the terminal every session writes to
OtherNow == [other EXCEPT !.terminal = terminal]

\* a cascade of the second session has settled in state r
SettleOther(op, r) ==
    /\ other' = [r EXCEPT !.terminal = "", !.exc = FALSE, !.ran = {},
                          !.escaped = {}, !.rewards_raised = FALSE,
                          !.rewards_last = FALSE]
    /\ terminal' = r.terminal
    /\ hist' = [op |-> op, ran |-> r.ran, escaped |-> r.escaped,
                uncaught |-> r.exc, rewards_raised |-> r.rewards_raised,
                rewards_last |-> r.rewards_last, n |-> hist.n + 1]
    /\ UNCHANGED <<variant, scheduler_fname, date, tier, survey,
                   basis_function, survey_map, plot_display, tier_objects,
                   survey_map_objects, _scheduler, _conditions, _date_time,
                   _rewards, _survey_rewards, _listed_survey, _survey_maps,
                   _tier_survey_rewards, _basis_functions, _survey_df_widget,
                   _basis_function_df_widget, shown>>

\* the dashboard scheduler_app(d, f) returns in variant v, beside a second
\* session o (None: there is none)
InitApp(v, d, f, o) ==
    \E r \in {scheduler_app(v, d, f, "")} :
        /\ ~r.exc
        /\ variant = r.variant
        /\ scheduler_fname = r.scheduler_fname
        /\ date = r.date
        /\ tier = r.tier
        /\ tier_objects = r.tier_objects
        /\ survey = r.survey
        /\ basis_function = r.basis_function
        /\ survey_map = r.survey_map
        /\ survey_map_objects = r.survey_map_objects
        /\ plot_display = r.plot_display
        /\ _scheduler = r._scheduler
        /\ _conditions = r._conditions
        /\ _date_time = r._date_time
        /\ _rewards = r._rewards
        /\ _survey_rewards = r._survey_rewards
        /\ _listed_survey = r._listed_survey
        /\ _survey_maps = r._survey_maps
        /\ _tier_survey_rewards = r._tier_survey_rewards
        /\ _basis_functions = r._basis_functions
        /\ _survey_df_widget = r._survey_df_widget
        /\ _basis_function_df_widget = r._basis_function_df_widget
        /\ shown = r.shown
        /\ terminal = r.terminal
        /\ other = o
        /\ hist = [op |-> "init", ran |-> r.ran, escaped |-> r.escaped,
                   uncaught |-> FALSE, rewards_raised |-> r.rewards_raised,
                   rewards_last |-> r.rewards_last, n |-> 0]

\* a dashboard as scheduler_app returns it, called with or without a date
\* and a pickle
Init ==
    \E v \in {1, 2} :
        \E d \in Dates :
            \E f \in FNames \cup {DefaultFname(v)} : InitApp(v, d, f, None)

\* the user types another file name into the pickle field
EnterSchedulerFname ==
    \E f \in FNames :
        /\ f # scheduler_fname
        /\ \E r \in {SetSchedulerFname(Now, f)} : Settle("scheduler_fname", r)

\* the user picks another date
PickDate ==
    \E d \in Dates :
        /\ d # date
        /\ \E r \in {SetDate(Now, d)} : Settle("date", r)

\* the user picks another tier in the tier selector
SelectTier ==
    \E i \in 1 .. Len(tier_objects) :
        /\ tier_objects[i] # tier
        /\ \E r \in {SetTier(Now, tier_objects[i])} : Settle("tier", r)

\* the user picks another map in the map selector
SelectSurveyMap ==
    \E i \in 1 .. Len(survey_map_objects) :
        /\ survey_map_objects[i] # survey_map
        /\ \E r \in {SetSurveyMap(Now, survey_map_objects[i])} : Settle("survey_map", r)

\* the selections a click can give a table that shows one row selected or
\* none (selectable=1): another row, or none
Clicks(w) ==
    ({<<>>} \cup {<<k>> : k \in 0 .. Len(w.data.rows) - 1}) \ {w.selection}

\* the user clicks a row of the survey rewards table on display
SelectSurveyRow ==
    /\ shown.survey_rewards_table = [widget |-> "current"]
    /\ \E sel \in Clicks(_survey_df_widget) :
       \E r \in {Watch("update_survey_with_row_selection",
                      [Now EXCEPT !._survey_df_widget.selection = sel])} :
           Settle("survey_row", r)

\* the user clicks a row of the basis function table on display
SelectBasisFunctionRow ==
    /\ shown.basis_function_table = [widget |-> "current"]
    /\ \E sel \in Clicks(_basis_function_df_widget) :
       \E r \in {Watch("update_basis_function_with_row_selection",
                      [Now EXCEPT !._basis_function_df_widget.selection = sel])} :
           Settle("basis_function_row", r)

\* a caller of the class calls sky_map (GridSpecLayout only; no pane does)
CallSkyMap ==
    /\ variant = 2
    /\ \E raises \in BOOLEAN :
       \E r \in {sky_map(Now, raises)} : Settle("sky_map", r)

Next ==
    \/ EnterSchedulerFname
    \/ PickDate
    \/ SelectTier
    \/ SelectSurveyMap
    \/ SelectSurveyRow
    \/ SelectBasisFunctionRow
    \/ CallSkyMap

Spec == Init /\ [][Next]_vars

---------------------------------------------------------------------------
(* Two sessions of the GridSpecLayout dashboard served by pn.serve: each   *)
(* call of scheduler_app builds a Scheduler and a layout; the server runs  *)
(* the callbacks of the sessions one cascade at a time.                    *)

\* the user actions the server handles in the model of two sessions
MaxEvents == 5

\* the user of the second session types another file name
OtherEnterSchedulerFname ==
    \E f \in FNames :
        /\ f # other.scheduler_fname
        /\ \E r \in {SetSchedulerFname(OtherNow, f)} :
               SettleOther("other scheduler_fname", r)

\* the user of the second session picks another date
OtherPickDate ==
    \E d \in Dates :
        /\ d # other.date
        /\ \E r \in {SetDate(OtherNow, d)} : SettleOther("other date", r)

\* the user of the second session picks another tier
OtherSelectTier ==
    \E i \in 1 .. Len(other.tier_objects) :
        /\ other.tier_objects[i] # other.tier
        /\ \E r \in {SetTier(OtherNow, other.tier_objects[i])} :
               SettleOther("other tier", r)

\* the user of the second session picks another map
OtherSelectSurveyMap ==
    \E i \in 1 .. Len(other.survey_map_objects) :
        /\ other.survey_map_objects[i] # other.survey_map
        /\ \E r \in {SetSurveyMap(OtherNow, other.survey_map_objects[i])} :
               SettleOther("other survey_map", r)

\* the user of the second session clicks a row of its survey rewards table
OtherSelectSurveyRow ==
    /\ other.shown.survey_rewards_table = [widget |-> "current"]
    /\ \E sel \in Clicks(other._survey_df_widget) :
       \E r \in {Watch("update_survey_with_row_selection",
                      [OtherNow EXCEPT !._survey_df_widget.selection = sel])} :
           SettleOther("other survey_row", r)

\* the user of the second session clicks a row of its basis function table
OtherSelectBasisFunctionRow ==
    /\ other.shown.basis_function_table = [widget |-> "current"]
    /\ \E sel \in Clicks(other._basis_function_df_widget) :
       \E r \in {Watch("update_basis_function_with_row_selection",
                      [OtherNow EXCEPT !._basis_function_df_widget.selection = sel])} :
           SettleOther("other basis_function_row", r)

\* pn.serve calls scheduler_app without arguments, once per session
InitSessions == InitApp(2, 0, DefaultFname(2), NewSession(2))

\* every widget of either session, for the first MaxEvents user actions
NextSessions ==
    \/ hist.n < MaxEvents /\ EnterSchedulerFname
    \/ hist.n < MaxEvents /\ PickDate
    \/ hist.n < MaxEvents /\ SelectTier
    \/ hist.n < MaxEvents /\ SelectSurveyMap
    \/ hist.n < MaxEvents /\ SelectSurveyRow
    \/ hist.n < MaxEvents /\ SelectBasisFunctionRow
    \/ hist.n < MaxEvents /\ OtherEnterSchedulerFname
    \/ hist.n < MaxEvents /\ OtherPickDate
    \/ hist.n < MaxEvents /\ OtherSelectTier
    \/ hist.n < MaxEvents /\ OtherSelectSurveyMap
    \/ hist.n < MaxEvents /\ OtherSelectSurveyRow
    \/ hist.n < MaxEvents /\ OtherSelectBasisFunctionRow

SpecSessions == InitSessions /\ [][NextSessions]_vars

---------------------------------------------------------------------------
(* The claims.  Every state of Spec is a settled state: the cascade of the *)
(* last user action has run to its end.                                    *)

\* the indices of the rows of _survey_rewards whose tier is the selected one
TierIdx == {i \in 1 .. Len(_survey_rewards.rows) : _survey_rewards.rows[i].tier = tier}

\* the j-th of them
TierIdxNth(j) == CHOOSE i \in TierIdx : Cardinality({k \in TierIdx : k <= i}) = j

\* C1: in every settled state _tier_survey_rewards is None if
\* _survey_rewards is None, and otherwise is exactly the rows of
\* _survey_rewards whose tier equals the selected tier, in their order.
C1_TierRowsAreTheSelectedTier ==
    IF _survey_rewards = None THEN _tier_survey_rewards = None
    ELSE /\ _tier_survey_rewards # None
         /\ Len(_tier_survey_rewards.rows) = Cardinality(TierIdx)
         /\ \A j \in 1 .. Len(_tier_survey_rewards.rows) :
                _tier_survey_rewards.rows[j] = _survey_rewards.rows[TierIdxNth(j)]

\* C1 witness: the user picked a tier that holds some but not all of the
\* rows of the table, and the filtered table holds one of them
C1_Witness ==
    /\ hist.op = "tier"
    /\ _survey_rewards # None /\ _tier_survey_rewards # None
    /\ Len(_tier_survey_rewards.rows) > 0
    /\ Len(_tier_survey_rewards.rows) < Len(_survey_rewards.rows)

\* the first row of _survey_rewards that carries tier x
FirstRowOf(x) ==
    CHOOSE k \in 1 .. Len(_survey_rewards.rows) :
        /\ _survey_rewards.rows[k].tier = x
        /\ \A m \in 1 .. k - 1 : _survey_rewards.rows[m].tier # x

\* tier_objects holds each tier of _survey_rewards once, in order of first
\* appearance
ObjectsAreDistinctTiers ==
    /\ \A i, j \in 1 .. Len(tier_objects) : i # j => tier_objects[i] # tier_objects[j]
    /\ {tier_objects[i] : i \in 1 .. Len(tier_objects)}
         = {_survey_rewards.rows[k].tier : k \in 1 .. Len(_survey_rewards.rows)}
    /\ \A i, j \in 1 .. Len(tier_objects) :
           i < j => FirstRowOf(tier_objects[i]) < FirstRowOf(tier_objects[j])

\* C2: after a cascade that updated _survey_rewards, the tier options are
\* the distinct tiers of the table in order of first appearance and tier is
\* the first of them, or the options are [''] and tier is '' when the table
\* is None; and in every settled state tier is one of the options.
C2_TierSelectorFollowsTable ==
    /\ "_update_tier_selector" \in hist.ran =>
           IF _survey_rewards = None
           THEN tier_objects = << <<>> >> /\ tier = <<>>
           ELSE ObjectsAreDistinctTiers /\ tier = tier_objects[1]
    /\ \E i \in 1 .. Len(tier_objects) : tier_objects[i] = tier

\* C2 witness: a new date gave a table with two tiers
C2_Witness ==
    /\ hist.op = "date"
    /\ "_update_tier_selector" \in hist.ran
    /\ _survey_rewards # None
    /\ Len(tier_objects) = 2

\* the index of the row selected in a table widget, -1 when there is none
SelectedRow(w) ==
    IF w = None THEN -1 ELSE IF w.selection = <<>> THEN -1 ELSE w.selection[1]

\* C3 (the claim as stated): in every settled state survey is the index of
\* the row selected in the current survey rewards table widget, -1 when no
\* row is selected, also after an external library call failed.
C3_SurveyIsSelectedRow == survey = SelectedRow(_survey_df_widget)

\* C4 (the claim as stated): in every settled state basis_function is the
\* index of the row selected in the current basis function table widget,
\* -1 when no row is selected.
C4_BasisFunctionIsSelectedRow == basis_function = SelectedRow(_basis_function_df_widget)

\* the callbacks C5 names
C5_Callbacks ==
    {"_update_scheduler", "_update_survey_rewards", "_update_tier_selector",
     "_update_survey_reward_table", "_update_listed_survey",
     "_update_map_selector", "_update_basis_functions"}

\* C5 (the claim as stated): no exception leaves one of the named callbacks
\* for the assignment that triggered it.
C5_NoExceptionLeavesCallback == hist.escaped \cap C5_Callbacks = {}

\* what C6 says of the settled state
RewardsFellBack ==
    /\ _survey_rewards = None
    /\ tier_objects = << <<>> >>
    /\ tier = <<>>
    /\ _tier_survey_rewards = None
    /\ shown.survey_rewards_table = [text |-> "No surveys available."]

\* C6 (the claim as stated): when a recomputation of the survey rewards
\* raised in the cascade, the settled state has _survey_rewards None, tier
\* options [''], tier '', _tier_survey_rewards None, and the table pane
\* shows 'No surveys available.'.
C6_AnyRewardsFailureFallsBack == hist.rewards_raised => RewardsFellBack

\* C6 (amended): when the last recomputation of the survey rewards in the
\* cascade raised, the settled state has _survey_rewards None, tier options
\* [''], tier '', _tier_survey_rewards None, and the table pane shows 'No
\* surveys available.'.
C6_RewardsFailureFallsBack == hist.rewards_last => RewardsFellBack

\* C6 witness: a date outside the pickle's range was picked while a table
\* was on display
C6_Witness ==
    /\ hist.op = "date"
    /\ hist.rewards_last
    /\ "_update_tier_selector" \in hist.ran
    /\ _survey_df_widget # None

\* C7: the survey rewards table pane shows 'No surveys available.' exactly
\* when _tier_survey_rewards is None and the basis function table pane shows
\* 'No basis functions available.' exactly when _basis_functions is None;
\* otherwise the pane shows a widget built from the current table, which is
\* the widget recorded in _survey_df_widget / _basis_function_df_widget.
C7_TableViews ==
    /\ shown.survey_rewards_table = [text |-> "No surveys available."]
           <=> _tier_survey_rewards = None
    /\ shown.basis_function_table = [text |-> "No basis functions available."]
           <=> _basis_functions = None
    /\ _tier_survey_rewards # None =>
           /\ shown.survey_rewards_table = [widget |-> "current"]
           /\ _survey_df_widget # None
           /\ _survey_df_widget.data = _tier_survey_rewards
    /\ _basis_functions # None =>
           /\ shown.basis_function_table = [widget |-> "current"]
           /\ _basis_function_df_widget # None
           /\ _basis_function_df_widget.data = _basis_functions

\* C7 witness: a basis function table is on display, and the survey rewards
\* table has fallen back to its text after having shown a widget
C7_Witness ==
    \/ /\ _basis_functions # None
       /\ _tier_survey_rewards # None
       /\ survey >= 0
    \/ /\ _tier_survey_rewards = None
       /\ _survey_df_widget # None

\* the title dashboard_title gives in the current state has piece x
TitleHas(x) ==
    \E i \in 1 .. Len(dashboard_title(Now)) : dashboard_title(Now)[i] = x

\* C8: the dashboard title is 'Scheduler Dashboard' alone when no scheduler
\* is loaded or tier is ''; otherwise it has a tier segment, a survey
\* segment exactly when survey >= 0, and, only with the survey segment, a
\* map segment exactly when plot_display == 1 or a basis function segment
\* exactly when plot_display == 2 and basis_function >= 0; never both.
C8_DashboardTitleSegments ==
    /\ dashboard_title(Now)[1] = "Scheduler Dashboard"
    /\ (_scheduler = None \/ tier = <<>>) => dashboard_title(Now) = <<"Scheduler Dashboard">>
    /\ (_scheduler # None /\ tier # <<>>) => TitleHas("\nTier ")
    /\ TitleHas(" | Survey ") <=> (TitleHas("\nTier ") /\ survey >= 0)
    /\ TitleHas(" | Map ") <=> (TitleHas(" | Survey ") /\ plot_display = 1)
    /\ TitleHas(" | Basis function ")
           <=> (TitleHas(" | Survey ") /\ plot_display = 2 /\ basis_function >= 0)
    /\ ~(TitleHas(" | Map ") /\ TitleHas(" | Basis function "))

\* C8 witness: a map is displayed for a survey whose basis function row was
\* selected before, so only plot_display keeps the two segments apart
C8_Witness ==
    /\ _scheduler # None /\ tier # <<>> /\ survey >= 0
    /\ plot_display = 1 /\ basis_function >= 0

\* C9 (the claim as stated): in every settled state the displayed dashboard
\* title and map title are the titles dashboard_title and map_title compute
\* from the current state.
C9_TitlesNeverStale ==
    /\ shown.dashboard_title = dashboard_title(Now)
    /\ ~map_title_raises(Now)
    /\ shown.map_title = map_title(Now)

\* C10 (the claim as stated): plot_display is 1 or 2; picking a non-empty
\* map leaves plot_display == 1; selecting a row of the basis function table
\* leaves plot_display == 2 and basis_function equal to the row's index.
C10_PlotDisplayFollowsSelection ==
    /\ plot_display \in {1, 2}
    /\ (hist.op = "survey_map" /\ survey_map # "") => plot_display = 1
    /\ (hist.op = "basis_function_row" /\ _basis_function_df_widget.selection # <<>>) =>
           /\ plot_display = 2
           /\ basis_function = _basis_function_df_widget.selection[1]

\* C11: a step that enters a file name whose pickle cannot be read leaves
\* _scheduler and _conditions as they were, runs no callback but
\* _update_scheduler, and changes none of the derived parameters.
C11_FailedReadChangesNothing ==
    [][(hist'.op = "scheduler_fname" /\ scheduler_fname' \in Unreadable
        /\ scheduler_fname' # scheduler_fname) =>
           /\ _scheduler' = _scheduler
           /\ _conditions' = _conditions
           /\ hist'.ran = {"_update_scheduler"}
           /\ UNCHANGED <<_survey_rewards, tier, _tier_survey_rewards, survey,
                          _listed_survey, survey_map, _basis_functions,
                          basis_function, plot_display>>]_vars

\* C11 witness: an unreadable file name was entered while a scheduler was
\* loaded and a survey and its basis function table were on display
C11_Witness ==
    /\ hist.op = "scheduler_fname"
    /\ scheduler_fname \in Unreadable
    /\ _scheduler # None /\ _conditions # None
    /\ survey >= 0 /\ _basis_functions # None

\* the tier number N a tier label '<text><N>' carries, all its digits read
TierNumber(label) ==
    IF Len(label) = 2 THEN IntOfChar(label[2])
    ELSE 10 * IntOfChar(label[2]) + IntOfChar(label[3])

\* C12 (the claim as stated): in every settled state with a tier and a
\* survey selected, _listed_survey is the entry [N][survey] of the survey
\* lists of the loaded scheduler, N the tier number of the selected tier
\* label, of however many digits.
C12_ListedSurveyIsTheSelectedOne ==
    (tier # <<>> /\ survey >= 0 /\ _scheduler # None) =>
        LET lists == SurveyListsOf(_scheduler.name)
            N     == TierNumber(tier)
        IN  /\ N + 1 <= Len(lists)
            /\ survey + 1 <= Len(lists[N + 1])
            /\ _listed_survey = [name |-> lists[N + 1][survey + 1]]

\* the map the claim names for a list of map keys: 'reward' when it is
\* among them, at whatever position, and the first key otherwise
NamedMap(maps) ==
    IF \E i \in 1 .. Len(maps) : maps[i] = "reward" THEN "reward" ELSE maps[1]

\* C13 (the claim as stated): when a survey row was clicked and the maps of
\* the survey were computed, the options of the map selector are the keys of
\* those maps in their order, and the selected map is 'reward' when the keys
\* include it and the first key otherwise.
C13_MapSelectorFollowsMaps ==
    (/\ hist.op = "survey_row"
     /\ "_update_map_selector" \in hist.ran
     /\ "_update_map_selector" \notin hist.escaped
     /\ tier # <<>> /\ survey >= 0 /\ _listed_survey # None) =>
        /\ survey_map_objects = MapsOf(_listed_survey.name)
        /\ survey_map = NamedMap(MapsOf(_listed_survey.name))

\* C14 (the claim as stated): in every settled state with no survey or no
\* tier selected the options of the map selector are [''] and survey_map is
\* ''; and in every settled state survey_map is one of the options.
C14_MapSelectorEmptyWithoutSurvey ==
    /\ (survey < 0 \/ tier = <<>>) =>
           (survey_map_objects = <<"">> /\ survey_map = "")
    /\ \E i \in 1 .. Len(survey_map_objects) : survey_map_objects[i] = survey_map

\* C15 (the claim as stated): in rubin_scheduler_dashboard_GridSpecLayout.py,
\* after the user has selected a survey row, whatever was selected before,
\* once the cascade has settled and the basis function table has been
\* rebuilt, plot_display is 1, survey_map is one of the maps of the newly
\* selected survey (the survey of the selected row), and the map title on
\* display names that survey and that map.
C15_SurveySelectionShowsMap ==
    (/\ variant = 2
     /\ hist.op = "survey_row"
     /\ _survey_df_widget.selection # <<>>
     /\ "_update_basis_functions" \in hist.ran
     /\ _basis_functions # None
     /\ shown.basis_function_table = [widget |-> "current"]) =>
        /\ survey = _survey_df_widget.selection[1]
        /\ plot_display = 1
        /\ ~SurveyNameRaises(Now)
        /\ \E i \in 1 .. Len(MapsOf(SurveyName(Now))) :
               MapsOf(SurveyName(Now))[i] = survey_map
        /\ shown.map_title = <<"Survey ", SurveyName(Now), "\n", "Map ", survey_map>>

\* the user actions of the second session
OtherOps ==
    {"other scheduler_fname", "other date", "other tier", "other survey_map",
     "other survey_row", "other basis_function_row"}

\* C16 (the claim as stated): sessions are independent: a step of one
\* session changes nothing of the Scheduler of the other session and nothing
\* the other session displays, the content of its terminal pane included.
C16_SessionsIndependent ==
    [][/\ hist'.op \in OtherOps =>
              /\ UNCHANGED <<scheduler_fname, date, tier, survey,
                             basis_function, survey_map, plot_display,
                             _scheduler, _conditions, _survey_rewards>>
              /\ shown' = shown
              /\ terminal' = terminal
       /\ hist'.op \notin OtherOps =>
              /\ other' = other
              /\ terminal' = terminal]_vars

===========================================================================
